---- MODULE Spec2Model ----
(***************************************************************************)
(* Model of src/src/App.tsx: the paginated artwork table (Page Store), the *)
(* row-selection state and the cross-page selection accumulator            *)
(* (handleSelectRows).                                                     *)
(*                                                                         *)
(* A record fetched from the API is modelled as [id, ref]: id is the       *)
(* Artwork id, ref names the HTTP request whose JSON response the object   *)
(* was decoded from (see PageReq and SelReq).  Two JavaScript objects are  *)
(* the same object (===, and hence the same member of a Set) exactly when  *)
(* they agree on both, which is TLA+ record equality.                      *)
(*                                                                         *)
(* net holds the requests in flight; acc[a] holds the locals of the a-th   *)
(* run of handleSelectRows that entered its loop, with the pages it has    *)
(* requested (reqLog), the sizes of the pages it has received (respLog),   *)
(* whether one of its fetches failed, and the selection it wrote.          *)
(***************************************************************************)
EXTENDS Integers, Sequences, FiniteSets

VARIABLES artworks, selectedArtworks, page, totalRecords, inputValue,
          overlayVisible, net, acc, nPageReq, nextAcc, lastOp, pageFetchFailed, nSteps

\* lastOp, pageFetchFailed and nSteps are history variables: lastOp is "submit"
\* right after the Submit handler ran, pageFetchFailed tells whether a request
\* of fetchArtworks has failed, nSteps counts the events handled so far
vars == <<artworks, selectedArtworks, page, totalRecords, inputValue,
          overlayVisible, net, acc, nPageReq, nextAcc, lastOp, pageFetchFailed, nSteps>>

----------------------------------------------------------------------------
(* Bounds of the model *)

\* records returned per page by the remote catalog
PageSize == 2

\* records in the remote catalog (the last page is partial)
CatalogSize == 3

\* events (user actions and HTTP responses) handled in one behaviour
MaxSteps == 10

\* a behaviour of MaxSteps events starts at most this many accumulations: each
\* takes a click that opens the overlay and a click on Submit
MaxAcc == MaxSteps \div 2

(* Program constant *)
rowsPerPage == 12

----------------------------------------------------------------------------
(* The remote catalog (https://api.artic.edu/api/v1/artworks?page=p) *)

TotalPages == (CatalogSize + PageSize - 1) \div PageSize

Min(a, b) == IF a < b THEN a ELSE b

\* ids of the records on catalog page p, in server order; empty past the end
CatalogPage(p) ==
    IF p \in 1..TotalPages
    THEN [i \in 1..Min(PageSize, CatalogSize - (p - 1) * PageSize)
             |-> (p - 1) * PageSize + i]
    ELSE <<>>

\* response.data.data of request r for page p: freshly decoded objects
ResponseData(p, r) ==
    [i \in 1..Len(CatalogPage(p)) |-> [id |-> CatalogPage(p)[i], ref |-> r]]

----------------------------------------------------------------------------
(* Pure helpers *)

Range(s) == {s[i] : i \in 1..Len(s)}

Ids(s) == {s[i].id : i \in 1..Len(s)}

\* Array.prototype.slice(0, n) for 0 <= n <= Len(s)
Slice(s, n) == SubSeq(s, 1, n)

\* [...new Set(s)]: first occurrence of every object, in insertion order
RECURSIVE SetSpread(_)
SetSpread(s) ==
    IF s = <<>> THEN <<>>
    ELSE LET init == SetSpread(SubSeq(s, 1, Len(s) - 1))
             last == s[Len(s)]
         IN IF last \in Range(init) THEN init ELSE Append(init, last)

Digits == {"0", "1", "2", "3", "4", "5", "6", "7", "8", "9"}

DigitVal(c) ==
    CASE c = "0" -> 0 [] c = "1" -> 1 [] c = "2" -> 2 [] c = "3" -> 3
      [] c = "4" -> 4 [] c = "5" -> 5 [] c = "6" -> 6 [] c = "7" -> 7
      [] c = "8" -> 8 [] c = "9" -> 9

\* value of the longest prefix of s made of digits, given the value v so far
RECURSIVE DigitPrefix(_, _, _)
DigitPrefix(s, v, n) ==
    IF s # <<>> /\ Head(s) \in Digits
    THEN DigitPrefix(Tail(s), 10 * v + DigitVal(Head(s)), n + 1)
    ELSE [val |-> v, n |-> n]

\* parseInt that reads the digits and drops a leading minus sign
ParseIntUnsigned(s) ==
    LET body == IF s # <<>> /\ Head(s) \in {"-", "+"} THEN Tail(s) ELSE s
        d    == DigitPrefix(body, 0, 0)
    IN IF d.n = 0 THEN [nan |-> TRUE, val |-> 0]
       ELSE [nan |-> FALSE, val |-> d.val]

\* parseInt(s) in radix 10 on a text given as a sequence of characters:
\* optional sign, then the longest run of digits; NaN when there is no digit
ParseInt(s) ==
    LET neg  == s # <<>> /\ Head(s) = "-"
        body == IF s # <<>> /\ Head(s) \in {"-", "+"} THEN Tail(s) ELSE s
        d    == DigitPrefix(body, 0, 0)
    IN IF d.n = 0 THEN [nan |-> TRUE, val |-> 0]
       ELSE [nan |-> FALSE, val |-> IF neg THEN -d.val ELSE d.val]

\* !isNaN(selectedRowCount) && selectedRowCount > 0
ValidCount(c) == ~c.nan /\ c.val > 0

----------------------------------------------------------------------------
(* State *)

\* texts the count field can hold after an edit
Inputs == { <<>>, <<"a", "b", "c">>, <<"0">>, <<"-", "5">>,
            <<"1">>, <<"3">>, <<"1", "5">> }

AccIds == 1..MaxAcc

IdleAcc == [status |-> "idle", count |-> 0, startPage |-> 0,
            closureSel |-> <<>>, currentPage |-> 0, remainingRows |-> 0,
            rowsToSelect |-> <<>>,
            reqLog |-> <<>>, respLog |-> <<>>, failed |-> FALSE,
            written |-> <<>>]

\* the k-th GET issued by fetchArtworks, for page p
PageReq(k, p) == [id |-> <<0, k>>, kind |-> "page", page |-> p, acc |-> 0]

\* the k-th GET issued by accumulation a, for page p
SelReq(a, k, p) == [id |-> <<a, k>>, kind |-> "sel", page |-> p, acc |-> a]

\* useState initial values, then the mount effect's fetchArtworks(page)
Init ==
    /\ artworks = <<>>
    /\ selectedArtworks = <<>>
    /\ page = 1
    /\ totalRecords = 0
    /\ inputValue = <<>>
    /\ overlayVisible = FALSE
    /\ net = {PageReq(1, 1)}
    /\ acc = [a \in AccIds |-> IdleAcc]
    /\ nPageReq = 1
    /\ nextAcc = 1
    /\ lastOp = "other"
    /\ pageFetchFailed = FALSE
    /\ nSteps = 0

\* one more event is handled
Tick == nSteps < MaxSteps /\ nSteps' = nSteps + 1

----------------------------------------------------------------------------
(* Page Store *)

\* fetchArtworks: the response of page request r arrives
fetchArtworksOk(r) ==
    /\ r \in net /\ r.kind = "page"
    /\ artworks' = ResponseData(r.page, r.id)
    /\ totalRecords' = TotalPages * rowsPerPage
    /\ net' = net \ {r}
    /\ lastOp' = "other"
    /\ Tick
    /\ UNCHANGED <<selectedArtworks, page, inputValue, overlayVisible, acc,
                   nPageReq, nextAcc, pageFetchFailed>>

\* fetchArtworks: page request r fails; the catch block only logs
fetchArtworksFail(r) ==
    /\ r \in net /\ r.kind = "page"
    /\ net' = net \ {r}
    /\ pageFetchFailed' = TRUE
    /\ lastOp' = "other"
    /\ Tick
    /\ UNCHANGED <<artworks, totalRecords, selectedArtworks, page, inputValue,
                   overlayVisible, acc, nPageReq, nextAcc>>

\* event.page of a paginator event that carries none
Undefined == -1

\* event.page || 0
OrZero(x) == IF x = Undefined THEN 0 ELSE x

\* the page indexes the paginator offers for totalRecords records
EventPages ==
    {Undefined} \cup 0..((totalRecords + rowsPerPage - 1) \div rowsPerPage - 1)

\* onPageChange, then the [page] effect's fetchArtworks(page) when page changed
onPageChange(ev) ==
    LET newPage == OrZero(ev) + 1
    IN /\ ev \in EventPages
       /\ IF newPage # page
          THEN /\ page' = newPage
               /\ net' = net \cup {PageReq(nPageReq + 1, newPage)}
               /\ nPageReq' = nPageReq + 1
          ELSE UNCHANGED <<page, net, nPageReq>>
       /\ lastOp' = "other"
       /\ Tick
       /\ UNCHANGED <<artworks, totalRecords, selectedArtworks, inputValue,
                      overlayVisible, acc, nextAcc, pageFetchFailed>>

----------------------------------------------------------------------------
(* Table view *)

\* e.value the DataTable (dataKey="id", checkbox mode) reports when the
\* checkbox of displayed row i is clicked
ToggledSelection(i) ==
    LET row  == artworks[i]
        hits == {j \in 1..Len(selectedArtworks) : selectedArtworks[j].id = row.id}
    IN IF hits = {}
       THEN Append(selectedArtworks, row)
       ELSE LET k == CHOOSE j \in hits : \A h \in hits : j <= h
            IN SubSeq(selectedArtworks, 1, k - 1)
                 \o SubSeq(selectedArtworks, k + 1, Len(selectedArtworks))

\* onSelectionChange={(e) => setSelectedArtworks(e.value)}
onSelectionChange(i) ==
    /\ i \in 1..Len(artworks)
    /\ selectedArtworks' = ToggledSelection(i)
    /\ lastOp' = "other"
    /\ Tick
    /\ UNCHANGED <<artworks, page, totalRecords, inputValue, overlayVisible,
                   net, acc, nPageReq, nextAcc, pageFetchFailed>>

\* click on the header image: overlayPanelRef.current?.toggle(e)
toggleOverlay ==
    /\ overlayVisible' = ~overlayVisible
    /\ lastOp' = "other"
    /\ Tick
    /\ UNCHANGED <<artworks, selectedArtworks, page, totalRecords, inputValue,
                   net, acc, nPageReq, nextAcc, pageFetchFailed>>

\* onChange={(e) => setInputValue(e.target.value)} of the count field
setInputValue(v) ==
    /\ overlayVisible
    /\ v \in Inputs
    /\ inputValue' = v
    /\ lastOp' = "other"
    /\ Tick
    /\ UNCHANGED <<artworks, selectedArtworks, page, totalRecords,
                   overlayVisible, net, acc, nPageReq, nextAcc, pageFetchFailed>>

----------------------------------------------------------------------------
(* Selection Accumulator: handleSelectRows *)

\* the locals of handleSelectRows before its loop (lines 79-85); page and
\* selectedArtworks are the values the handler's closure holds
StartAcc(count) ==
    [IdleAcc EXCEPT !.status = "fetching", !.count = count,
                    !.startPage = page, !.closureSel = selectedArtworks,
                    !.currentPage = page, !.remainingRows = count]

\* a loop body that asks for the same page again when it came back empty
LoopStepRetry(st, artworksToFetch) ==
    LET rowsFromCurrentPage == Min(st.remainingRows, Len(artworksToFetch))
    IN [st EXCEPT !.rowsToSelect = st.rowsToSelect
                                     \o Slice(artworksToFetch, rowsFromCurrentPage),
                  !.remainingRows = st.remainingRows - rowsFromCurrentPage,
                  !.currentPage = IF artworksToFetch = <<>>
                                  THEN st.currentPage ELSE st.currentPage + 1,
                  !.respLog = Append(st.respLog, Len(artworksToFetch))]

\* a loop body that counts pages from the displayed page, not from its local
LoopStepFromPage(st, artworksToFetch) ==
    LET rowsFromCurrentPage == Min(st.remainingRows, Len(artworksToFetch))
    IN [st EXCEPT !.rowsToSelect = st.rowsToSelect
                                     \o Slice(artworksToFetch, rowsFromCurrentPage),
                  !.remainingRows = st.remainingRows - rowsFromCurrentPage,
                  !.currentPage = page + Len(st.respLog) + 1,
                  !.respLog = Append(st.respLog, Len(artworksToFetch))]

\* one pass of the loop body on the page just received (lines 92-101)
LoopStep(st, artworksToFetch) ==
    LET rowsFromCurrentPage == Min(st.remainingRows, Len(artworksToFetch))
    IN [st EXCEPT !.rowsToSelect = st.rowsToSelect
                                     \o Slice(artworksToFetch, rowsFromCurrentPage),
                  !.remainingRows = st.remainingRows - rowsFromCurrentPage,
                  !.currentPage = st.currentPage + 1,
                  !.respLog = Append(st.respLog, Len(artworksToFetch))]

\* [...new Set([...selectedArtworks, ...rowsToSelect])] (line 105)
UpdatedSelection(st) == SetSpread(st.closureSel \o st.rowsToSelect)

\* the loop test (line 87) with the locals st of accumulation a: either the
\* next fetchArtworksForSelection(currentPage) is issued and awaited, or the
\* loop is left and the merged selection is written (lines 105-106)
Continue(a, st, pending) ==
    IF st.remainingRows > 0
    THEN /\ acc' = [acc EXCEPT ![a] =
                      [st EXCEPT !.reqLog = Append(st.reqLog, st.currentPage)]]
         /\ net' = pending
                      \cup {SelReq(a, Len(st.reqLog) + 1, st.currentPage)}
         /\ UNCHANGED selectedArtworks
    ELSE /\ acc' = [acc EXCEPT ![a] =
                      [st EXCEPT !.status = "done",
                                 !.written = UpdatedSelection(st)]]
         /\ selectedArtworks' = UpdatedSelection(st)
         /\ net' = pending

\* click on Submit up to the first await: parse, validate, enter the loop;
\* then overlayPanelRef.current?.hide()
SubmitClick ==
    LET selectedRowCount == ParseInt(inputValue)
    IN /\ overlayVisible
       /\ IF ValidCount(selectedRowCount)
          THEN /\ nextAcc <= MaxAcc
               /\ Continue(nextAcc, StartAcc(selectedRowCount.val), net)
               /\ nextAcc' = nextAcc + 1
          ELSE UNCHANGED <<acc, net, selectedArtworks, nextAcc>>
       /\ overlayVisible' = FALSE
       /\ lastOp' = "submit"
       /\ Tick
       /\ UNCHANGED <<artworks, page, totalRecords, nPageReq, pageFetchFailed>>

\* a submit handler that also empties the count field
handleSelectRowsClearing ==
    /\ SubmitClick
    /\ inputValue' = <<>>

\* handleSelectRows never calls setInputValue
handleSelectRows ==
    /\ SubmitClick
    /\ UNCHANGED inputValue

\* the awaited fetchArtworksForSelection of request r returns response.data.data
selResponseOk(r) ==
    /\ r \in net /\ r.kind = "sel"
    /\ Continue(r.acc, LoopStep(acc[r.acc], ResponseData(r.page, r.id)),
                net \ {r})
    /\ lastOp' = "other"
    /\ Tick
    /\ UNCHANGED <<artworks, page, totalRecords, inputValue, overlayVisible,
                   nPageReq, nextAcc, pageFetchFailed>>

\* the awaited fetchArtworksForSelection of request r fails and returns []
selResponseFail(r) ==
    /\ r \in net /\ r.kind = "sel"
    /\ Continue(r.acc,
                LoopStep([acc[r.acc] EXCEPT !.failed = TRUE], <<>>),
                net \ {r})
    /\ lastOp' = "other"
    /\ Tick
    /\ UNCHANGED <<artworks, page, totalRecords, inputValue, overlayVisible,
                   nPageReq, nextAcc, pageFetchFailed>>

----------------------------------------------------------------------------
Next ==
    \/ \E r \in net : fetchArtworksOk(r)
    \/ \E r \in net : fetchArtworksFail(r)
    \/ \E ev \in EventPages : onPageChange(ev)
    \/ \E i \in 1..Len(artworks) : onSelectionChange(i)
    \/ toggleOverlay
    \/ \E v \in Inputs : setInputValue(v)
    \/ handleSelectRows
    \/ \E r \in net : selResponseOk(r)
    \/ \E r \in net : selResponseFail(r)

Spec == Init /\ [][Next]_vars

----------------------------------------------------------------------------
(* Vocabulary of the properties *)

\* the selection requests of accumulation a in flight
Outstanding(n, a) == {r \in n : r.kind = "sel" /\ r.acc = a}

PageFetches == {r \in net : r.kind = "page"}

IdSeq(s) == [i \in 1..Len(s) |-> s[i].id]

\* records the catalog holds from page p onward
Available(p) ==
    IF (p - 1) * PageSize >= CatalogSize THEN 0
    ELSE CatalogSize - (p - 1) * PageSize

\* ids of the first n records in catalog order starting at page p
FirstN(p, n) == [i \in 1..n |-> (p - 1) * PageSize + i]

\* a step of the Submit button's handler
SubmitStep == overlayVisible /\ lastOp' = "submit"

\* a count text that is non-numeric, negative or zero
InvalidText(s) ==
    \/ s = <<>>
    \/ Head(s) \notin Digits \cup {"+"}
    \/ \A i \in 1..Len(s) : s[i] = "0"

\* accumulation a leaves its loop and writes the selection in this step
Completes(a) == acc[a].status = "fetching" /\ acc'[a].status = "done"

----------------------------------------------------------------------------
(* C1: the page-fetch loop of an accumulation ends as soon as a fetched   *)
(* page returns zero records: an accumulation that has received an empty  *)
(* page has left its loop and written the selection with the records      *)
(* gathered so far.                                                        *)
LoopEndsOnEmptyPage ==
    \A a \in AccIds :
        (\E i \in 1..Len(acc[a].respLog) : acc[a].respLog[i] = 0)
            => /\ acc[a].status = "done"
               /\ Outstanding(net, a) = {}

(* C2: in every reachable state no Artwork id occurs twice in            *)
(* selectedArtworks.                                                      *)
NoDuplicateIds == Cardinality(Ids(selectedArtworks)) = Len(selectedArtworks)

(* C3: a submit whose count text is non-numeric, zero or negative leaves  *)
(* the selection unchanged, starts no accumulation and issues no fetch.   *)
InvalidSubmitIsNoOp ==
    [][(SubmitStep /\ InvalidText(inputValue))
          => /\ selectedArtworks' = selectedArtworks
             /\ net' = net
             /\ acc' = acc]_vars

\* an invalid count was submitted over a non-empty selection
InvalidSubmitHandled ==
    /\ lastOp = "submit" /\ nextAcc = 1
    /\ inputValue = <<"-", "5">>
    /\ selectedArtworks # <<>>

(* C4: a completed accumulation of N records, N at most the records       *)
(* available from its start page and no fetch failed, has collected        *)
(* exactly the first N records in catalog order from the start page, and   *)
(* the selection it wrote has as many entries as the union by id of the    *)
(* existing selection and those N records.                                 *)
AccumulateCollectsFirstN ==
    \A a \in AccIds :
        (/\ acc[a].status = "done"
         /\ ~acc[a].failed
         /\ acc[a].count <= Available(acc[a].startPage))
            => /\ IdSeq(acc[a].rowsToSelect)
                    = FirstN(acc[a].startPage, acc[a].count)
               /\ Len(acc[a].written)
                    = Cardinality(Ids(acc[a].closureSel)
                        \cup Range(FirstN(acc[a].startPage, acc[a].count)))

(* C5: idempotence: an accumulation run with the same count and start     *)
(* page on the selection an earlier run wrote, the catalog returning the   *)
(* same data, writes a selection equal to that earlier result: the same   *)
(* ids, and as many entries.                                               *)
AccumulateIdempotent ==
    \A a, b \in AccIds :
        (/\ a # b
         /\ acc[a].status = "done" /\ acc[b].status = "done"
         /\ ~acc[a].failed /\ ~acc[b].failed
         /\ acc[b].count = acc[a].count
         /\ acc[b].startPage = acc[a].startPage
         /\ acc[b].closureSel = acc[a].written)
            => /\ Ids(acc[b].written) = Ids(acc[a].written)
               /\ Len(acc[b].written) = Len(acc[a].written)

(* C6: additive-only: when an accumulation completes and writes the       *)
(* selection, every record in the selection just before the write is      *)
(* still in it afterwards (its id is still selected).                      *)
AccumulatorAdditiveOnly ==
    [][\A a \in AccIds :
          Completes(a) => Ids(selectedArtworks) \subseteq Ids(selectedArtworks')]_vars

(* C7: within one accumulation the fetches are sequential and consecutive: *)
(* at most one request is outstanding, a request is issued only when every *)
(* earlier one has been answered, and the pages requested are startPage,   *)
(* startPage+1, ... each exactly once.                                     *)
SequentialConsecutiveFetches ==
    \A a \in AccIds :
        LET out == Outstanding(net, a)
            log == acc[a].reqLog
        IN /\ Cardinality(out) <= 1
           /\ Len(log) = Len(acc[a].respLog) + Cardinality(out)
           /\ \A i \in 1..Len(log) : log[i] = acc[a].startPage + i - 1
           /\ \A r \in out : r.page = log[Len(log)]

\* an accumulation whose fetch failed has its next page request outstanding
FetchAfterFailureOutstanding ==
    \E a \in AccIds :
        /\ acc[a].failed
        /\ Len(acc[a].reqLog) >= 2
        /\ Outstanding(net, a) # {}

(* C8: once every fetch triggered by a page-change event has settled, the *)
(* displayed records are the records of the current page number, in       *)
(* whatever order the responses arrived.  The claim says so for failed    *)
(* fetches too; it is stated here for the behaviours in which no fetch    *)
(* failed, which the claim covers.                                         *)
PageStoreShowsCurrentPage ==
    (PageFetches = {} /\ ~pageFetchFailed)
        => IdSeq(artworks) = CatalogPage(page)

(* C9 as stated: after a submit of a non-empty text, inputValue no longer *)
(* holds the submitted text.                                               *)
PendingCountDiscarded ==
    [][(SubmitStep /\ inputValue # <<>>) => inputValue' # inputValue]_vars

(* C9 amended: the submit handler leaves inputValue unchanged, and a      *)
(* valid submit starts an accumulation for the count the text holds, so a *)
(* following submit without new input starts another accumulation with    *)
(* the same count.                                                         *)
SubmitKeepsInput ==
    [][SubmitStep
          => /\ inputValue' = inputValue
             /\ ~InvalidText(inputValue)
                   => /\ acc'[nextAcc].status # "idle"
                      /\ acc'[nextAcc].count = ParseInt(inputValue').val]_vars

\* two submits of the retained text started two accumulations of one count
SameCountSubmittedTwice ==
    /\ lastOp = "submit" /\ nextAcc = 3
    /\ acc[1].count = acc[2].count
    /\ ParseInt(inputValue).val = acc[2].count

(* C10: an accumulation starts at the page displayed at submit; page      *)
(* changes while it is in flight change neither the pages it requests nor *)
(* the records it collects; and its steps never modify page, artworks or  *)
(* totalRecords.                                                           *)
AccumulationIndependentOfPage ==
    /\ [](\A a \in AccIds :
            ~acc[a].failed =>
                IdSeq(acc[a].rowsToSelect)
                    = FirstN(acc[a].startPage, Len(acc[a].rowsToSelect)))
    /\ [][/\ nextAcc' = nextAcc + 1
               => \E r \in Outstanding(net', nextAcc) : r.page = page
          /\ page' # page
               => /\ acc' = acc
                  /\ \A a \in AccIds : Outstanding(net', a) = Outstanding(net, a)
          /\ acc' # acc => UNCHANGED <<page, artworks, totalRecords>>
          /\ \A a \in AccIds :
               \A r \in Outstanding(net', a) \ Outstanding(net, a) :
                  \A r0 \in Outstanding(net, a) : r.page = r0.page + 1]_vars

\* an accumulation is past its first page while another page is displayed
PageChangedInFlight ==
    \E a \in AccIds :
        /\ acc[a].status = "fetching"
        /\ Len(acc[a].reqLog) >= 2
        /\ acc[a].rowsToSelect # <<>>
        /\ page # acc[a].startPage

====
